---------------------------- MODULE Spec2Model ----------------------------
(***************************************************************************)
(* go-testcov: run `go test` with coverage, read the coverage profile,     *)
(* and compare, per file, the number of uncovered sections against the     *)
(* budget declared in a comment of that file (src/main.go).                *)
(*                                                                         *)
(* Strings are modelled as sequences of one-character strings, so that     *)
(* splitting, suffix tests and the regular expressions of main.go are      *)
(* computed character by character.                                        *)
(***************************************************************************)
EXTENDS Integers, Sequences, FiniteSets, TLC

(***************************************************************************)
(* Bounds of the model.                                                    *)
(***************************************************************************)
\* records (lines after the mode line) of a coverage profile in Spec
MaxRecords == 2
\* lines of a coverage profile in SpecParse
MaxProfileLines == 3
\* lines of a source text in SpecBudget
MaxFileLines == 3
\* sections handed to removeSectionsMarkedWithInlineComment in SpecFilter
MaxSections == 2
\* segments of a profile path in SpecPath
MaxSegments == 5

(***************************************************************************)
(* package strings                                                         *)
(***************************************************************************)
NoString == <<>>

HasSuffix(s, p) == Len(s) >= Len(p) /\ SubSeq(s, Len(s) - Len(p) + 1, Len(s)) = p

\* p occurs in s at the 1-based position i
MatchAt(s, i, p) == i >= 1 /\ i + Len(p) - 1 <= Len(s) /\ SubSeq(s, i, i + Len(p) - 1) = p

\* strings.Index: 0-based offset of the first occurrence of p in s, -1 if none
Index(s, p) ==
    IF \E i \in 1..(Len(s) + 1) : MatchAt(s, i, p)
    THEN (CHOOSE i \in 1..(Len(s) + 1) :
             MatchAt(s, i, p) /\ \A j \in 1..(i - 1) : ~MatchAt(s, j, p)) - 1
    ELSE -1

\* strings.Count(s, c) for a one-character c
Count(s, c) == Cardinality({i \in 1..Len(s) : s[i] = c})

\* strings.SplitN(s, sep, n) for n >= 1 and a non-empty sep
RECURSIVE SplitN(_, _, _)
SplitN(s, sep, n) ==
    LET i == Index(s, sep)
    IN  IF n = 1 \/ i < 0
        THEN <<s>>
        ELSE <<SubSeq(s, 1, i)>> \o SplitN(SubSeq(s, i + Len(sep) + 1, Len(s)), sep, n - 1)

\* strings.Split(s, sep) for a non-empty sep: empty pieces are kept
Split(s, sep) == SplitN(s, sep, Len(s) + 1)

\* strings.Join
RECURSIVE Join(_, _)
Join(parts, sep) ==
    IF parts = <<>> THEN NoString
    ELSE IF Len(parts) = 1 THEN parts[1]
    ELSE parts[1] \o sep \o Join(Tail(parts), sep)

Range(seq) == {seq[i] : i \in 1..Len(seq)}

(***************************************************************************)
(* Characters: byte order, digits.                                         *)
(***************************************************************************)
\* the characters the model uses, in ascending byte order
AsciiOrder ==
    <<"\t", "\n", "\r", " ", ",", ".", "/",
      "0", "1", "2", "3", "4", "5", "6", "7", "8", "9", ":",
      "S", "U", "_",
      "a", "b", "c", "d", "e", "g", "h", "i", "m", "n", "o", "p", "q", "r",
      "s", "t", "u", "w", "x", "y", "z">>

Ord(c) == CHOOSE i \in 1..Len(AsciiOrder) : AsciiOrder[i] = c

\* a < b as Go compares strings: byte-wise, a proper prefix is smaller
RECURSIVE StringLess(_, _)
StringLess(a, b) ==
    IF b = <<>> THEN FALSE
    ELSE IF a = <<>> THEN TRUE
    ELSE IF a[1] # b[1] THEN Ord(a[1]) < Ord(b[1])
    ELSE StringLess(Tail(a), Tail(b))

DigitChars == <<"0", "1", "2", "3", "4", "5", "6", "7", "8", "9">>

IsDigit(c) == c \in Range(DigitChars)

DigitValue(c) == (CHOOSE i \in 1..10 : DigitChars[i] = c) - 1

\* utility stringToInt (strconv.Atoi) on a non-empty run of decimal digits
RECURSIVE stringToInt(_)
stringToInt(s) ==
    IF Len(s) = 1 THEN DigitValue(s[1])
    ELSE stringToInt(SubSeq(s, 1, Len(s) - 1)) * 10 + DigitValue(s[Len(s)])

(***************************************************************************)
(* The regular expressions of main.go, lines 12-16.                        *)
(***************************************************************************)
\* RE2's \s
WhiteSpace == {"\t", "\n", "\f", "\r", " "}

UntestedSection == <<"u","n","t","e","s","t","e","d"," ","s","e","c","t","i","o","n">>

\* inlineIgnore = "//.*untested section(\s|,|$)" matches s from position i
inlineIgnoreAt(s, i) ==
    /\ MatchAt(s, i, <<"/","/">>)
    /\ \E j \in (i + 2)..Len(s) :
          /\ MatchAt(s, j, UntestedSection)
          /\ \A k \in (i + 2)..(j - 1) : s[k] # "\n"
          /\ LET e == j + Len(UntestedSection)
             IN  e = Len(s) + 1 \/ (e <= Len(s) /\ s[e] \in WhiteSpace \cup {","})

\* anyInlineIgnore.MatchString(s)
anyInlineIgnore(s) == \E i \in 1..Len(s) : inlineIgnoreAt(s, i)

\* startsWithInlineIgnore.MatchString(s): "^\s*" + inlineIgnore
startsWithInlineIgnore(s) ==
    \E i \in 1..Len(s) :
        /\ \A k \in 1..(i - 1) : s[k] \in WhiteSpace
        /\ inlineIgnoreAt(s, i)

\* the position after the run of spaces that starts at i
RECURSIVE SkipSpaces(_, _)
SkipSpaces(s, i) == IF i <= Len(s) /\ s[i] = " " THEN SkipSpaces(s, i + 1) ELSE i

\* the position after the run of digits that starts at i
RECURSIVE SkipDigits(_, _)
SkipDigits(s, i) == IF i <= Len(s) /\ IsDigit(s[i]) THEN SkipDigits(s, i + 1) ELSE i

UntestedSectionsColon == <<"u","n","t","e","s","t","e","d"," ","s","e","c","t","i","o","n","s",":">>

\* where the digits of perFileIgnore = "// *untested sections: *([0-9]+)" begin
\* when the pattern is tried from position i
perFileIgnoreDigits(s, i) == SkipSpaces(s, SkipSpaces(s, i + 2) + Len(UntestedSectionsColon))

\* perFileIgnore matches s from position i
perFileIgnoreAt(s, i) ==
    /\ MatchAt(s, i, <<"/","/">>)
    /\ MatchAt(s, SkipSpaces(s, i + 2), UntestedSectionsColon)
    /\ LET d == perFileIgnoreDigits(s, i) IN d <= Len(s) /\ IsDigit(s[d])

\* perFileIgnore.FindStringIndex(s)[0] + 1: the leftmost match (0 if none)
perFileIgnoreIndex(s) ==
    IF \E i \in 1..Len(s) : perFileIgnoreAt(s, i)
    THEN CHOOSE i \in 1..Len(s) :
            perFileIgnoreAt(s, i) /\ \A j \in 1..(i - 1) : ~perFileIgnoreAt(s, j)
    ELSE 0

\* perFileIgnore.FindStringSubmatch(s): <<whole match, group 1>>, or <<>>
perFileIgnoreSubmatch(s) ==
    LET i == perFileIgnoreIndex(s)
    IN  IF i = 0 THEN <<>>
        ELSE LET d == perFileIgnoreDigits(s, i)
                 e == SkipDigits(s, d)
             IN  <<SubSeq(s, i, e - 1), SubSeq(s, d, e - 1)>>

Generated == <<"g","e","n","e","r","a","t","e","d">>

\* generatedFile = "/*generated.*\.go$": MatchString(path)
generatedFile(path) ==
    \E i \in 1..Len(path) :
        /\ MatchAt(path, i, Generated)
        /\ i + Len(Generated) <= Len(path) - 2
        /\ HasSuffix(path, <<".","g","o">>)
        /\ \A k \in (i + Len(Generated))..(Len(path) - 3) : path[k] # "\n"

(***************************************************************************)
(* Utilities of the package (section.go, utils.go).                        *)
(***************************************************************************)
\* strings.FieldsFunc(s, c \in seps): the maximal runs of s free of seps
RECURSIVE FieldsFunc(_, _)
FieldsFunc(s, seps) ==
    IF s = <<>> THEN <<>>
    ELSE IF s[1] \in seps THEN FieldsFunc(Tail(s), seps)
    ELSE LET stop == IF \E i \in 1..Len(s) : s[i] \in seps
                     THEN CHOOSE i \in 1..Len(s) :
                             s[i] \in seps /\ \A j \in 1..(i - 1) : s[j] \notin seps
                     ELSE Len(s) + 1
         IN  <<SubSeq(s, 1, stop - 1)>> \o FieldsFunc(SubSeq(s, stop, Len(s)), seps)

\* splitWithoutEmpty(string, delimiter): the non-empty pieces
splitWithoutEmpty(s, delimiter) == FieldsFunc(s, {delimiter})

\* NewSection(raw): "<path>:<startLine>.<startChar>,<endLine>.<endChar> <n> <count>"
NewSection(raw) ==
    LET parts == SplitN(raw, <<":">>, 2)
        nums  == FieldsFunc(parts[2], {".", ",", " "})
    IN  [path      |-> parts[1],
         startLine |-> stringToInt(nums[1]),
         startChar |-> stringToInt(nums[2]),
         endLine   |-> stringToInt(nums[3]),
         endChar   |-> stringToInt(nums[4]),
         sortValue |-> stringToInt(nums[1]) * 100000 + stringToInt(nums[2])]

\* containsString(needle list, element)
containsString(list, element) == \E i \in 1..Len(list) : list[i] = element

\* joinPath(parts...)
joinPath(parts) == Join(parts, <<"/">>)

\* the keys in the order iterateBySortedKey visits them: ascending
RECURSIVE sortedKeys(_)
sortedKeys(keys) ==
    IF keys = {} THEN <<>>
    ELSE LET least == CHOOSE k \in keys : \A o \in keys \ {k} : StringLess(k, o)
         IN  <<least>> \o sortedKeys(keys \ {least})

(***************************************************************************)
(* main.go                                                                 *)
(***************************************************************************)
\* uncoveredLines with the suffix test on "0" alone, without the space
RECURSIVE uncoveredLinesAnyZero(_)
uncoveredLinesAnyZero(lines) ==
    IF lines = <<>> THEN <<>>
    ELSE (IF HasSuffix(lines[1], <<"0">>) THEN <<NewSection(lines[1])>> ELSE <<>>)
         \o uncoveredLinesAnyZero(Tail(lines))

\* untestedSections, lines 149-153: the lines that end in " 0"
RECURSIVE uncoveredLines(_)
uncoveredLines(lines) ==
    IF lines = <<>> THEN <<>>
    ELSE (IF HasSuffix(lines[1], <<" ","0">>) THEN <<NewSection(lines[1])>> ELSE <<>>)
         \o uncoveredLines(Tail(lines))

\* untestedSections(coverageFilePath), on the content read from that path
untestedSections(content) ==
    LET lines == splitWithoutEmpty(content, "\n")
    IN  IF Len(lines) = 0 THEN <<>> ELSE uncoveredLines(Tail(lines))

\* groupSectionsByPath(sections)
RECURSIVE groupSectionsByPath(_)
groupSectionsByPath(sections) ==
    IF sections = <<>> THEN <<>>
    ELSE LET grouped == groupSectionsByPath(SubSeq(sections, 1, Len(sections) - 1))
             section == sections[Len(sections)]
             path    == section.path
             group   == IF path \in DOMAIN grouped THEN grouped[path] ELSE <<>>
         IN  [p \in DOMAIN grouped \cup {path} |->
                 IF p = path THEN Append(group, section) ELSE grouped[p]]

\* sectionIsKept that appends at the first line of the section without
\* looking at the later ones
sectionIsKeptAtStart(section, lines, lineNumber) ==
    /\ lineNumber <= section.endLine
    /\ ~anyInlineIgnore(lines[lineNumber])
    /\ ~(lineNumber >= 2 /\ startsWithInlineIgnore(lines[lineNumber - 1]))

\* the loop body of removeSectionsMarkedWithInlineComment, lines 109-116, from
\* lineNumber on: TRUE when the section is appended (kept)
RECURSIVE sectionIsKept(_, _, _)
sectionIsKept(section, lines, lineNumber) ==
    IF lineNumber > section.endLine THEN FALSE
    ELSE IF anyInlineIgnore(lines[lineNumber]) THEN FALSE
    ELSE IF lineNumber >= 2 /\ startsWithInlineIgnore(lines[lineNumber - 1]) THEN FALSE
    ELSE IF lineNumber = section.endLine THEN TRUE
    ELSE sectionIsKept(section, lines, lineNumber + 1)

\* removeSectionsMarkedWithInlineComment(sections, lines)
RECURSIVE removeSectionsMarkedWithInlineComment(_, _)
removeSectionsMarkedWithInlineComment(sections, lines) ==
    IF sections = <<>> THEN <<>>
    ELSE (IF sectionIsKept(sections[1], lines, sections[1].startLine)
          THEN <<sections[1]>> ELSE <<>>)
         \o removeSectionsMarkedWithInlineComment(Tail(sections), lines)

\* findFile(path): drop leading directories until the rest exists on disk
RECURSIVE findFileParts(_, _)
findFileParts(parts, exists) ==
    IF Len(parts) > 0 /\ Join(parts, <<"/">>) \notin exists
    THEN findFileParts(Tail(parts), exists)
    ELSE parts

findFile(path, exists) == Join(findFileParts(Split(path, <<"/">>), exists), <<"/">>)

modulePrefixSize == 3

\* normalizeCoveredPath with the display paths of its last two returns swapped
normalizeCoveredPathSwapped(path, workingDirectory, env, exists) ==
    LET separator      == <<"/">>
        parts          == SplitN(path, separator, 3 + 1)
        goPrefixedPath == joinPath(<<env.goPath, <<"s","r","c">>, path>>)
        inGoPath       == env.hasGoPath /\ goPrefixedPath \in exists
    IN  IF Len(parts) <= 3
        THEN IF inGoPath THEN <<path, goPrefixedPath>> ELSE <<path, path>>
        ELSE LET prefix        == Join(SubSeq(parts, 1, 3), separator)
                 demodularized == findFile(SplitN(path, prefix \o separator, 2)[2], exists)
             IN  IF ~inGoPath THEN <<demodularized, demodularized>>
                 ELSE IF HasSuffix(workingDirectory, prefix)
                      THEN <<path, goPrefixedPath>>
                      ELSE <<demodularized, goPrefixedPath>>

\* normalizeCoveredPath(path, workingDirectory): <<displayPath, readPath>>;
\* env is [hasGoPath, goPath] (os.LookupEnv) and exists the paths os.Stat finds
normalizeCoveredPath(path, workingDirectory, env, exists) ==
    LET separator      == <<"/">>
        parts          == SplitN(path, separator, modulePrefixSize + 1)
        goPrefixedPath == joinPath(<<env.goPath, <<"s","r","c">>, path>>)
        inGoPath       == env.hasGoPath /\ goPrefixedPath \in exists
    IN  IF Len(parts) <= modulePrefixSize
        THEN IF inGoPath THEN <<path, goPrefixedPath>> ELSE <<path, path>>
        ELSE LET prefix        == Join(SubSeq(parts, 1, modulePrefixSize), separator)
                 demodularized == findFile(SplitN(path, prefix \o separator, 2)[2], exists)
             IN  IF ~inGoPath THEN <<demodularized, demodularized>>
                 ELSE IF HasSuffix(workingDirectory, prefix)
                      THEN <<demodularized, goPrefixedPath>>
                      ELSE <<path, goPrefixedPath>>

\* configuredUntestedForFile that reports the number of lines before the match
configuredUntestedForFileZeroBased(content) ==
    LET match == perFileIgnoreSubmatch(content)
    IN  IF Len(match) = 2
        THEN <<stringToInt(match[2]),
               Count(SubSeq(content, 1, perFileIgnoreIndex(content) - 1), "\n")>>
        ELSE <<0, 0>>

\* configuredUntestedForFile(path), on the content read from that path:
\* <<count, lineNumber>>
configuredUntestedForFile(content) ==
    LET match == perFileIgnoreSubmatch(content)
    IN  IF Len(match) = 2
        THEN LET index == perFileIgnoreIndex(content) - 1
                 linesBeforeMatch == Count(SubSeq(content, 1, index), "\n")
             IN  <<stringToInt(match[2]), linesBeforeMatch + 1>>
        ELSE <<0, 0>>

\* compareUntested that fails a file whose count equals its budget
compareUntestedAtLeast(actualUntested, configuredUntested) ==
    IF actualUntested >= configuredUntested THEN "more" ELSE "less"

\* the comparison of checkCoverage, lines 70-80
compareUntested(actualUntested, configuredUntested) ==
    IF actualUntested = configuredUntested THEN "same"
    ELSE IF actualUntested > configuredUntested THEN "more"
    ELSE "less"

\* printing without sorting: the sections stay in the order of the profile
unsortedSections(sections) == {sections}

\* sort.Slice by sortValue, line 91: every order it may leave the sections in
RECURSIVE sortedBySortValue(_)
sortedBySortValue(sections) ==
    IF sections = <<>> THEN {<<>>}
    ELSE LET firsts == {i \in 1..Len(sections) :
                           \A j \in 1..Len(sections) :
                               sections[i].sortValue <= sections[j].sortValue}
         IN  UNION {{<<sections[i]>> \o rest :
                       rest \in sortedBySortValue(
                           SubSeq(sections, 1, i - 1) \o SubSeq(sections, i + 1, Len(sections)))} :
                    i \in firsts}

(***************************************************************************)
(* State of one run of runGoTestAndCheckCoverage.                          *)
(***************************************************************************)
VARIABLES
    pc,            \* where the run (or the function under test) stands
    argv,          \* the arguments handed to runGoTestAndCheckCoverage
    deferred,      \* whether "defer os.Remove(coveragePath)" was registered
    coverageFile,  \* content of coverage.out on disk, NoFile when absent
    written,       \* what the go test command left in coverage.out
    disk,          \* the source tree: path |-> content
    goExit,        \* exit code of the go test command
    exitCode,      \* the result of the run
    grouped,       \* sectionsByPath of checkCoverage
    keys,          \* the sorted keys iterateBySortedKey has yet to visit
    visited,       \* what the callback of checkCoverage did, per visited key
    reads,         \* the paths read with readFile, in order
    stderr,        \* what was printed to os.Stderr, in order
    arg,           \* input of the function under test (function specifications)
    ret            \* its result

vars == <<pc, argv, deferred, coverageFile, written, disk, goExit, exitCode,
          grouped, keys, visited, reads, stderr, arg, ret>>

runVars == <<argv, deferred, coverageFile, written, disk, goExit, exitCode,
             grouped, keys, visited, reads, stderr>>

\* a file on disk: absent, or present with a content
NoFile == [exists |-> FALSE, content |-> NoString]
File(content) == [exists |-> TRUE, content |-> content]

\* no exit code yet
NoCode == 0 - 1

\* no input, no result yet
None == <<>>

coveragePath == <<"c","o","v","e","r","a","g","e",".","o","u","t">>

(***************************************************************************)
(* The inputs of a run.                                                    *)
(***************************************************************************)
ModeLine == <<"m","o","d","e",":"," ","s","e","t">>

\* records the go test command may write after the mode line
RecordPool ==
    { <<"a",".","g","o",":","1",".","1",",","1",".","5"," ","1"," ","0">>,
      <<"a",".","g","o",":","2",".","3",",","3",".","4"," ","2"," ","0">>,
      <<"b",".","g","o",":","3",".","1",",","3",".","2"," ","1"," ","0">>,
      <<"b",".","g","o",":","1",".","1",",","1",".","2"," ","1"," ","1","0">>,
      <<"z","z","_","g","e","n","e","r","a","t","e","d",".","g","o",":","1",".","1",",","1",".","2"," ","1"," ","0">>,
      <<"d","e","g","e","n","e","r","a","t","e","d","/","m",".","g","o",":","2",".","1",",","2",".","2"," ","1"," ","0">>,
      <<"h","/","u","/","r","/","a",".","g","o",":","3",".","1",",","3",".","2"," ","1"," ","0">> }

RECURSIVE SeqsUpTo(_, _)
SeqsUpTo(pool, n) ==
    IF n = 0 THEN {<<>>}
    ELSE LET shorter == SeqsUpTo(pool, n - 1)
         IN  shorter \cup {Append(q, x) : q \in {r \in shorter : Len(r) = n - 1}, x \in pool}

\* the text of a profile: the mode line, the records, each ended by a newline
ProfileText(records) == Join(<<ModeLine>> \o records, <<"\n">>) \o <<"\n">>

Profiles == {ProfileText(records) : records \in SeqsUpTo(RecordPool, MaxRecords)}

StaleProfile == <<"m","o","d","e",":"," ","s","e","t","\n","o","l","d",".","g","o",":","1",".","1",",","1",".","2"," ","1"," ","0","\n">>

Plain         == <<"x","\n","y","\n","z">>
BudgetOne     == <<"x","\n","/","/"," ","u","n","t","e","s","t","e","d"," ","s","e","c","t","i","o","n","s",":"," ","1","\n","y">>
BudgetAndMark == <<"/","/"," ","u","n","t","e","s","t","e","d"," ","s","e","c","t","i","o","n","s",":"," ","2","\n","x"," ","/","/"," ","u","n","t","e","s","t","e","d"," ","s","e","c","t","i","o","n","\n","y">>

\* the source trees of the model
Disks ==
    { [p \in {<<"a",".","g","o">>, <<"b",".","g","o">>, <<"z","z","_","g","e","n","e","r","a","t","e","d",".","g","o">>, <<"d","e","g","e","n","e","r","a","t","e","d","/","m",".","g","o">>} |->
          IF p = <<"a",".","g","o">> THEN a ELSE IF p = <<"b",".","g","o">> THEN b ELSE Plain] :
      a \in {Plain, BudgetAndMark}, b \in {Plain, BudgetOne} }

Argvs == {<<"-v">>, <<"-v", "-cover">>}

ExitCodes == {0, 1, 2}

workingDirectory == <<"/","w","/","h","/","u","/","r">>

\* GOPATH is not set
environment == [hasGoPath |-> FALSE, goPath |-> NoString]

(***************************************************************************)
(* runGoTestAndCheckCoverage, lines 28-46, and checkCoverage, lines 49-84. *)
(***************************************************************************)
\* the removal deferred whatever the arguments
deferRemoveAlways(args) == TRUE

\* only exit code 1 of the go test command taken as a failure
testFailedOnlyOne(code) == code = 1

\* lines 34-36: the profile is removed on return unless -cover was passed
deferRemove(args) == ~containsString(args, "-cover")

\* line 42
testFailed(code) == code # 0

Init ==
    /\ pc = "start"
    /\ argv \in Argvs
    /\ deferred = FALSE
    /\ coverageFile \in {NoFile, File(StaleProfile)}
    /\ written = NoFile
    /\ disk \in Disks
    /\ goExit = NoCode
    /\ exitCode = NoCode
    /\ grouped = <<>>
    /\ keys = <<>>
    /\ visited = <<>>
    /\ reads = <<>>
    /\ stderr = <<>>
    /\ arg = None
    /\ ret = None

\* the run's variables in the specifications of a single function
RunIdle ==
    /\ argv = <<>>
    /\ deferred = FALSE
    /\ coverageFile = NoFile
    /\ written = NoFile
    /\ disk = <<>>
    /\ goExit = NoCode
    /\ exitCode = NoCode
    /\ grouped = <<>>
    /\ keys = <<>>
    /\ visited = <<>>
    /\ reads = <<>>
    /\ stderr = <<>>

\* the deferred os.Remove, run when runGoTestAndCheckCoverage returns
afterReturn(file) == IF deferred THEN NoFile ELSE file

\* lines 29-36
RemoveStaleProfile ==
    /\ pc = "start"
    /\ coverageFile' = NoFile
    /\ deferred' = deferRemove(argv)
    /\ pc' = "run"
    /\ UNCHANGED <<argv, written, disk, goExit, exitCode, grouped, keys, visited,
                   reads, stderr, arg, ret>>

\* lines 38-40: the go test command runs; it writes the profile when it
\* succeeds, and may or may not have written one when it fails
RunGoTest ==
    /\ pc = "run"
    /\ \E code \in ExitCodes :
          /\ goExit' = code
          /\ \E file \in (IF code = 0 THEN {File(p) : p \in Profiles}
                          ELSE {coverageFile} \cup {File(ProfileText(<<r>>)) : r \in RecordPool}) :
                /\ coverageFile' = file
                /\ written' = file
    /\ pc' = "ran"
    /\ UNCHANGED <<argv, deferred, disk, exitCode, grouped, keys, visited, reads,
                   stderr, arg, ret>>

\* lines 42-44
ReturnTestFailure ==
    /\ pc = "ran"
    /\ testFailed(goExit)
    /\ exitCode' = goExit
    /\ coverageFile' = afterReturn(coverageFile)
    /\ pc' = "done"
    /\ UNCHANGED <<argv, deferred, written, disk, goExit, grouped, keys, visited,
                   reads, stderr, arg, ret>>

\* lines 45, 50-55: checkCoverage reads the profile and groups the sections
StartCheckCoverage ==
    /\ pc = "ran"
    /\ ~testFailed(goExit)
    /\ exitCode' = 0
    /\ reads' = Append(reads, coveragePath)
    /\ grouped' = groupSectionsByPath(untestedSections(coverageFile.content))
    /\ keys' = sortedKeys(DOMAIN grouped')
    /\ pc' = "check"
    /\ UNCHANGED <<argv, deferred, coverageFile, written, disk, goExit, visited,
                   stderr, arg, ret>>

\* lines 63-68 for the key path: what the callback computes before comparing
analysis(path) ==
    LET paths   == normalizeCoveredPath(path, workingDirectory, environment, DOMAIN disk)
        content == disk[paths[2]]
        budget  == configuredUntestedForFile(content)
        kept    == removeSectionsMarkedWithInlineComment(grouped[path], Split(content, <<"\n">>))
    IN  [key |-> path, displayPath |-> paths[1], readPath |-> paths[2],
         configuredUntested |-> budget[1], configuredUntestedAtLine |-> budget[2],
         sections |-> kept, actualUntested |-> Len(kept)]

\* printUntestedSections, lines 86-99: the header, then the sorted sections
printUntestedSections(a, sorted) ==
    <<[kind |-> "header", key |-> a.key, displayPath |-> a.displayPath,
       actual |-> a.actualUntested, configured |-> a.configuredUntested]>>
    \o [i \in 1..Len(sorted) |->
           [kind |-> "section", key |-> a.key, displayPath |-> a.displayPath,
            section |-> sorted[i]]]

\* lines 76-79
decrementWarning(a) ==
    [kind |-> "warning", key |-> a.key, displayPath |-> a.displayPath,
     actual |-> a.actualUntested, configured |-> a.configuredUntested,
     readPath |-> a.readPath, line |-> a.configuredUntestedAtLine]

\* lines 58-61: the callback returns at once for a generated file
SkipGeneratedFile ==
    /\ pc = "check"
    /\ keys # <<>>
    /\ generatedFile(Head(keys))
    /\ keys' = Tail(keys)
    /\ visited' = Append(visited, [key |-> Head(keys), compared |-> FALSE])
    /\ UNCHANGED <<pc, argv, deferred, coverageFile, written, disk, goExit, exitCode,
                   grouped, reads, stderr, arg, ret>>

\* lines 63-80: the callback for a file that is not skipped
CheckPath ==
    /\ pc = "check"
    /\ keys # <<>>
    /\ ~generatedFile(Head(keys))
    /\ LET a == analysis(Head(keys))
           outcome == compareUntested(a.actualUntested, a.configuredUntested)
       IN  /\ reads' = reads \o <<a.readPath, a.readPath>>
           /\ visited' = Append(visited, [key |-> Head(keys), compared |-> TRUE,
                                          outcome |-> outcome, analysis |-> a])
           /\ \/ /\ outcome = "same"
                 /\ UNCHANGED <<stderr, exitCode>>
              \/ /\ outcome = "more"
                 /\ \E sorted \in sortedBySortValue(a.sections) :
                       stderr' = stderr \o printUntestedSections(a, sorted)
                 /\ exitCode' = 1
              \/ /\ outcome = "less"
                 /\ stderr' = Append(stderr, decrementWarning(a))
                 /\ UNCHANGED exitCode
    /\ keys' = Tail(keys)
    /\ UNCHANGED <<pc, argv, deferred, coverageFile, written, disk, goExit, grouped,
                   arg, ret>>

\* line 83, and the return of runGoTestAndCheckCoverage at line 45
ReturnCheckCoverage ==
    /\ pc = "check"
    /\ keys = <<>>
    /\ coverageFile' = afterReturn(coverageFile)
    /\ pc' = "done"
    /\ UNCHANGED <<argv, deferred, written, disk, goExit, exitCode, grouped, keys,
                   visited, reads, stderr, arg, ret>>

Next ==
    \/ RemoveStaleProfile
    \/ RunGoTest
    \/ ReturnTestFailure
    \/ StartCheckCoverage
    \/ SkipGeneratedFile
    \/ CheckPath
    \/ ReturnCheckCoverage

Spec == Init /\ [][Next]_vars

(***************************************************************************)
(* untestedSections applied to profile texts.                              *)
(***************************************************************************)
ParseLinePool ==
    { ModeLine,
      NoString,
      <<"a",".","g","o",":","1",".","1",",","1",".","5"," ","1"," ","0">>,
      <<"a",".","g","o",":","2",".","3",",","3",".","4"," ","2"," ","1","0">>,
      <<"b",".","g","o",":","3",".","1",",","3",".","2"," ","1"," ","1">>,
      <<"b",".","g","o",":","1",".","1","0",",","2",".","2"," ","1","0"," ","0">> }

\* texts of up to MaxProfileLines lines, with and without a final newline
ParseInputs ==
    LET texts == {Join(ls, <<"\n">>) : ls \in SeqsUpTo(ParseLinePool, MaxProfileLines)}
    IN  texts \cup {t \o <<"\n">> : t \in texts}

InitParse == pc = "call" /\ arg \in ParseInputs /\ ret = None /\ RunIdle

CallUntestedSections ==
    /\ pc = "call"
    /\ ret' = untestedSections(arg)
    /\ pc' = "return"
    /\ UNCHANGED <<arg, runVars>>

SpecParse == InitParse /\ [][CallUntestedSections]_vars

(***************************************************************************)
(* removeSectionsMarkedWithInlineComment applied to sections and lines.    *)
(***************************************************************************)
FilterLinePool ==
    { <<"x">>,
      <<"x"," ","/","/"," ","u","n","t","e","s","t","e","d"," ","s","e","c","t","i","o","n">>,
      <<" ","\t","/","/"," ","y"," ","u","n","t","e","s","t","e","d"," ","s","e","c","t","i","o","n",","," ","z">>,
      <<"/","/"," ","u","n","t","e","s","t","e","d"," ","s","e","c","t","i","o","n","s",":"," ","2">> }

\* the lines of a source file of three lines
FilterFiles == {<<l1, l2, l3>> : l1 \in FilterLinePool, l2 \in FilterLinePool, l3 \in FilterLinePool}

\* a section of x.go over the lines first..last
SectionOver(first, last) ==
    [path |-> <<"x",".","g","o">>, startLine |-> first, startChar |-> 1, endLine |-> last,
     endChar |-> 9, sortValue |-> first * 100000 + 1]

\* up to MaxSections sections, each within the lines of the file
FilterInputs ==
    {[sections |-> secs, lines |-> lines] :
        secs \in SeqsUpTo({SectionOver(r[1], r[2]) :
                               r \in {x \in (1..3) \X (1..3) : x[1] <= x[2]}}, MaxSections),
        lines \in FilterFiles}

InitFilter == pc = "call" /\ arg \in FilterInputs /\ ret = None /\ RunIdle

CallRemoveSections ==
    /\ pc = "call"
    /\ ret' = removeSectionsMarkedWithInlineComment(arg.sections, arg.lines)
    /\ pc' = "return"
    /\ UNCHANGED <<arg, runVars>>

SpecFilter == InitFilter /\ [][CallRemoveSections]_vars

(***************************************************************************)
(* configuredUntestedForFile applied to source texts.                      *)
(***************************************************************************)
BudgetLinePool ==
    { <<"x">>,
      <<"/","/"," ","u","n","t","e","s","t","e","d"," ","s","e","c","t","i","o","n","s",":"," ","2">>,
      <<"y"," ","/","/","u","n","t","e","s","t","e","d"," ","s","e","c","t","i","o","n","s",":","1","3","z">>,
      <<"/","/"," "," ","u","n","t","e","s","t","e","d"," ","s","e","c","t","i","o","n","s",":"," "," ","7">>,
      <<"/","/"," ","U","n","t","e","s","t","e","d"," ","S","e","c","t","i","o","n","s",":"," ","4">>,
      <<"/","/"," ","u","n","t","e","s","t","e","d"," ","s","e","c","t","i","o","n">> }

BudgetInputs ==
    {Join(ls, <<"\n">>) : ls \in SeqsUpTo(BudgetLinePool, MaxFileLines) \ {<<>>}}

InitBudget == pc = "call" /\ arg \in BudgetInputs /\ ret = None /\ RunIdle

CallConfiguredUntested ==
    /\ pc = "call"
    /\ ret' = configuredUntestedForFile(arg)
    /\ pc' = "return"
    /\ UNCHANGED <<arg, runVars>>

SpecBudget == InitBudget /\ [][CallConfiguredUntested]_vars

(***************************************************************************)
(* normalizeCoveredPath applied to paths, working directories, GOPATH      *)
(* settings and disks.                                                     *)
(***************************************************************************)
Directories == <<<<"h">>, <<"u">>, <<"r">>, <<"p">>, <<"q">>, <<"s">>>>

\* the path of n segments: n - 1 directories and the file a.go
PathOf(n) == Join(SubSeq(Directories, 1, n - 1) \o <<<<"a",".","g","o">>>>, <<"/">>)

GoPath == <<"/","g">>

\* the suffixes of a sequence of segments, as paths
Suffixes(parts) == {Join(SubSeq(parts, i, Len(parts)), <<"/">>) : i \in 1..Len(parts)}

\* what may be on disk for a profile path: the file under GOPATH/src, the
\* file under /src, and the path with any number of leading directories dropped
Candidates(path) ==
    {joinPath(<<GoPath, <<"s","r","c">>, path>>), joinPath(<<NoString, <<"s","r","c">>, path>>)}
    \cup Suffixes(Split(path, <<"/">>))

PathInputs ==
    UNION {{[path |-> PathOf(n), workingDirectory |-> wd, env |-> env, exists |-> exists] :
               wd \in {<<"/","w","/","h","/","u","/","r">>, <<"/","w","/","x">>},
               env \in {[hasGoPath |-> FALSE, goPath |-> NoString],
                        [hasGoPath |-> TRUE, goPath |-> GoPath]},
               exists \in SUBSET Candidates(PathOf(n))} :
           n \in 1..MaxSegments}

InitPath == pc = "call" /\ arg \in PathInputs /\ ret = None /\ RunIdle

CallNormalizeCoveredPath ==
    /\ pc = "call"
    /\ ret' = normalizeCoveredPath(arg.path, arg.workingDirectory, arg.env, arg.exists)
    /\ pc' = "return"
    /\ UNCHANGED <<arg, runVars>>

SpecPath == InitPath /\ [][CallNormalizeCoveredPath]_vars

(***************************************************************************)
(* Properties of the parser, the filter, the budget reader and the path    *)
(* resolver.                                                               *)
(***************************************************************************)
\* the elements of seq at the positions in keep, in their order
RECURSIVE SubsequenceAt(_, _)
SubsequenceAt(seq, keep) ==
    IF seq = <<>> THEN <<>>
    ELSE SubsequenceAt(SubSeq(seq, 1, Len(seq) - 1), keep)
         \o (IF Len(seq) \in keep THEN <<seq[Len(seq)]>> ELSE <<>>)

\* sub can be obtained from seq by deleting elements
IsSubsequence(sub, seq) ==
    \E keep \in SUBSET (1..Len(seq)) : SubsequenceAt(seq, keep) = sub

\* the non-empty lines of a text
NonEmptyLines(text) ==
    LET lines == Split(text, <<"\n">>)
    IN  SubsequenceAt(lines, {i \in 1..Len(lines) : lines[i] # NoString})

\* the last whitespace-separated field of a line
LastField(line) ==
    LET fields == FieldsFunc(line, WhiteSpace)
    IN  IF fields = <<>> THEN NoString ELSE fields[Len(fields)]

\* the records of a profile text: its non-empty lines after the first
RecordsOf(text) ==
    LET lines == NonEmptyLines(text) IN IF lines = <<>> THEN <<>> ELSE Tail(lines)

\* the records whose hit count, the last field, is the token "0"
ZeroHitRecords(text) ==
    LET records == RecordsOf(text)
    IN  SubsequenceAt(records, {i \in 1..Len(records) : LastField(records[i]) = <<"0">>})

Suppressed(section, lines) ==
    \/ \E l \in section.startLine..section.endLine : anyInlineIgnore(lines[l])
    \/ section.startLine >= 2 /\ startsWithInlineIgnore(lines[section.startLine - 1])

InlineMarker == <<" ","/","/"," ","u","n","t","e","s","t","e","d"," ","s","e","c","t","i","o","n">>

\* C3: removeSectionsMarkedWithInlineComment drops a region exactly when a
\* line of [startLine, endLine] matches the inline marker or the line before
\* startLine is, after leading whitespace, the marker comment; the other
\* regions are kept once each, in their order; and adding a marker to any line
\* (at its end, or as the whole line) only removes regions from the result.
C3_FilterDropsExactlyMarked ==
    pc = "return" =>
        /\ ret = SubsequenceAt(arg.sections,
                     {i \in 1..Len(arg.sections) : ~Suppressed(arg.sections[i], arg.lines)})
        /\ \A l \in 1..Len(arg.lines) :
              /\ IsSubsequence(
                     removeSectionsMarkedWithInlineComment(
                         arg.sections, [arg.lines EXCEPT ![l] = @ \o InlineMarker]), ret)
              /\ IsSubsequence(
                     removeSectionsMarkedWithInlineComment(
                         arg.sections, [arg.lines EXCEPT ![l] = InlineMarker]), ret)

\* two sections: the first is dropped for the marker alone on the line above
\* it though none of its own lines has one, the second is kept
C3_Witness ==
    /\ pc = "return"
    /\ Len(arg.sections) = 2
    /\ arg.sections[1].startLine = 2
    /\ arg.sections[1].endLine = 3
    /\ \A l \in 2..3 : ~anyInlineIgnore(arg.lines[l])
    /\ startsWithInlineIgnore(arg.lines[1])
    /\ arg.sections[2].startLine = 3
    /\ ret = <<arg.sections[2]>>

\* the budget comment read line by line: the first line with a match of
\* perFileIgnore decides the count and the line number
BudgetByLines(text) ==
    LET lines == Split(text, <<"\n">>)
        hits  == {l \in 1..Len(lines) : \E i \in 1..Len(lines[l]) : perFileIgnoreAt(lines[l], i)}
    IN  IF hits = {} THEN <<0, 0>>
        ELSE LET first == CHOOSE l \in hits : \A o \in hits : l <= o
             IN  <<stringToInt(perFileIgnoreSubmatch(lines[first])[2]), first>>

Uppers == <<"A", "B", "C", "D", "E", "F", "G", "H", "I", "J", "K", "L", "M",
            "N", "O", "P", "Q", "R", "S", "T", "U", "V", "W", "X", "Y", "Z">>
Lowers == <<"a", "b", "c", "d", "e", "f", "g", "h", "i", "j", "k", "l", "m",
            "n", "o", "p", "q", "r", "s", "t", "u", "v", "w", "x", "y", "z">>

\* strings.ToLower
ToLower(s) ==
    [i \in 1..Len(s) |->
        IF s[i] \in Range(Uppers)
        THEN Lowers[CHOOSE k \in 1..26 : Uppers[k] = s[i]]
        ELSE s[i]]

\* C5 as stated: the budget comment is found whatever its case; the count and
\* the line of the first such comment are returned, (0, 0) without one.
C5_BudgetCaseTolerant ==
    pc = "return" => ret = BudgetByLines(ToLower(arg))

\* C5, amended: the budget comment is matched case-sensitively, with any
\* number of spaces after "//" and after the colon; the count and the 1-based
\* line of the first match are returned, (0, 0) without a match.
C5_BudgetOfFirstMatch ==
    pc = "return" => ret = BudgetByLines(arg)

\* a text whose second line holds the first budget comment, in the middle of the
\* line and without spaces, and whose third line holds another one
C5_Witness ==
    /\ pc = "return"
    /\ Split(arg, <<"\n">>) = <<<<"x">>, <<"y"," ","/","/","u","n","t","e","s","t","e","d"," ","s","e","c","t","i","o","n","s",":","1","3","z">>, <<"/","/"," ","u","n","t","e","s","t","e","d"," ","s","e","c","t","i","o","n","s",":"," ","2">>>>
    /\ ret = <<13, 2>>

\* the path without its first three segments, and then without leading
\* segments until what is left is on disk or nothing is left
Demodularized(path, exists) ==
    LET rest   == SubSeq(Split(path, <<"/">>), 4, Len(Split(path, <<"/">>)))
        onDisk == {i \in 1..Len(rest) : Join(SubSeq(rest, i, Len(rest)), <<"/">>) \in exists}
    IN  IF onDisk = {} THEN NoString
        ELSE Join(SubSeq(rest, CHOOSE i \in onDisk : \A o \in onDisk : i <= o, Len(rest)), <<"/">>)

\* the build-root candidate GOPATH/src/path, when GOPATH is set
BuildRootCandidate(input) == input.env.goPath \o <<"/","s","r","c","/">> \o input.path

CandidateOnDisk(input) == input.env.hasGoPath /\ BuildRootCandidate(input) \in input.exists

IsShortPath(input) == Count(input.path, "/") <= 2

InsideModule(input) ==
    HasSuffix(input.workingDirectory, Join(SubSeq(Split(input.path, <<"/">>), 1, 3), <<"/">>))

\* C10: normalizeCoveredPath returns (displayPath, readPath) by the case table:
\* short path without candidate on disk: (path, path); short path with the
\* candidate on disk: (path, candidate); longer path without candidate:
\* (demodularized, demodularized); longer path with candidate and the working
\* directory ending in the module prefix: (demodularized, candidate); longer
\* path with candidate otherwise: (path, candidate). Without GOPATH no
\* candidate is ever used.
C10_PathCaseTable ==
    pc = "return" =>
        LET demodularized == Demodularized(arg.path, arg.exists)
            candidate     == BuildRootCandidate(arg)
        IN  /\ IsShortPath(arg) /\ ~CandidateOnDisk(arg) => ret = <<arg.path, arg.path>>
            /\ IsShortPath(arg) /\ CandidateOnDisk(arg) => ret = <<arg.path, candidate>>
            /\ ~IsShortPath(arg) /\ ~CandidateOnDisk(arg) => ret = <<demodularized, demodularized>>
            /\ ~IsShortPath(arg) /\ CandidateOnDisk(arg) /\ InsideModule(arg)
                  => ret = <<demodularized, candidate>>
            /\ ~IsShortPath(arg) /\ CandidateOnDisk(arg) /\ ~InsideModule(arg)
                  => ret = <<arg.path, candidate>>
            /\ ~arg.env.hasGoPath => ret[1] = ret[2]

\* a path of five segments with its candidate on disk, resolved from inside
\* the module: two leading segments are dropped after the module prefix
C10_Witness ==
    /\ pc = "return"
    /\ arg.path = <<"h","/","u","/","r","/","p","/","a",".","g","o">>
    /\ arg.workingDirectory = <<"/","w","/","h","/","u","/","r">>
    /\ arg.env.hasGoPath
    /\ ret = <<<<"a",".","g","o">>, <<"/","g","/","s","r","c","/","h","/","u","/","r","/","p","/","a",".","g","o">>>>

(***************************************************************************)
(* Properties of a run.                                                    *)
(***************************************************************************)
\* the regions of the zero-hit records of the profile the go test command left
ZeroHitSections ==
    LET zero == ZeroHitRecords(written.content)
    IN  [i \in 1..Len(zero) |-> NewSection(zero[i])]

\* the paths with at least one zero-hit record in the profile
UncoveredPaths == LET all == ZeroHitSections IN {all[i].path : i \in 1..Len(all)}

\* every path the profile has a record for, covered or not
ProfilePaths ==
    LET records == RecordsOf(written.content)
    IN  {NewSection(records[i]).path : i \in 1..Len(records)}

\* the path the source of a profile path is read from
ReadPath(path) == normalizeCoveredPath(path, workingDirectory, environment, DOMAIN disk)[2]

\* the uncovered regions of a path that no inline marker suppresses
Surviving(path) ==
    LET all   == ZeroHitSections
        lines == Split(disk[ReadPath(path)], <<"\n">>)
    IN  SubsequenceAt(all,
            {i \in 1..Len(all) : all[i].path = path /\ ~Suppressed(all[i], lines)})

\* <<budget, line of the budget comment>> of the source of a path
Budget(path) == BudgetByLines(disk[ReadPath(path)])

ExceedsBudget(path) == Len(Surviving(path)) > Budget(path)[1]

UnderBudget(path) == Len(Surviving(path)) < Budget(path)[1]

VisitedKeys == {visited[i].key : i \in 1..Len(visited)}

\* the warning for a path was printed, with the read path and the line of the
\* budget comment
Warned(path) ==
    \E i \in 1..Len(stderr) :
        /\ stderr[i].kind = "warning"
        /\ stderr[i].key = path
        /\ stderr[i].readPath = ReadPath(path)
        /\ stderr[i].line = Budget(path)[2]
        /\ stderr[i].line >= 1

\* C1: once the test command has succeeded, the result of checkCoverage is 1
\* exactly when a file visited so far that is not skipped as generated has more
\* surviving uncovered regions than its budget, and 0 otherwise; at the return
\* every path with a zero-hit record has been visited.
C1_ExitOneIffBudgetExceeded ==
    /\ pc = "check" \/ (pc = "done" /\ goExit = 0) =>
          exitCode = IF \E k \in VisitedKeys : ~generatedFile(k) /\ ExceedsBudget(k)
                     THEN 1 ELSE 0
    /\ pc = "done" /\ goExit = 0 => VisitedKeys = UncoveredPaths

\* a.go exceeds its budget of 0 and b.go, visited after it, has exactly its
\* budget of 1: the result stays 1
C1_Witness ==
    /\ pc = "done"
    /\ exitCode = 1
    /\ Len(visited) = 2
    /\ visited[1].key = <<"a",".","g","o">> /\ visited[1].outcome = "more"
    /\ visited[2].key = <<"b",".","g","o">> /\ visited[2].outcome = "same"
    /\ visited[2].analysis.configuredUntested = 1

\* C2: every file of the profile that is not skipped as generated and has fewer
\* surviving uncovered regions than its budget gets the warning with the read
\* path and the line of the budget comment, also a file that declares a budget
\* and has no uncovered region in the profile.
C2_WarningForEveryFileUnderBudget ==
    pc = "done" /\ goExit = 0 =>
        \A p \in ProfilePaths : ~generatedFile(p) /\ UnderBudget(p) => Warned(p)

\* the last segment of a path
FileName(path) == LET parts == Split(path, <<"/">>) IN parts[Len(parts)]

\* the name of the file holds the generated marker before the .go extension
EndsInGeneratedMarker(path) == generatedFile(FileName(path))

\* C6: checkCoverage skips a path exactly when the path ends in a generated
\* marker before the .go extension; every other path is compared against its
\* budget.
C6_SkipsExactlyGeneratedNames ==
    \A i \in 1..Len(visited) : ~visited[i].compared <=> EndsInGeneratedMarker(visited[i].key)

\* C7: when the go test command fails, its exit code is the result and the
\* analysis never starts: nothing is read, nothing is printed.
C7_TestFailurePropagated ==
    goExit # NoCode /\ goExit # 0 =>
        /\ pc \in {"ran", "done"}
        /\ reads = <<>>
        /\ stderr = <<>>
        /\ visited = <<>>
        /\ pc = "done" => exitCode = goExit

\* the go test command failed with 2 after writing a profile with an uncovered
\* region, and the run returned 2
C7_Witness ==
    /\ pc = "done"
    /\ goExit = 2
    /\ exitCode = 2
    /\ written.exists
    /\ Len(untestedSections(written.content)) = 1

\* C8: the keys are visited in ascending order of the profile path, so the
\* diagnostics are grouped by path in that order; for a file over its budget
\* the header comes first, followed by all its surviving regions in
\* non-decreasing order of sortValue.
C8_DiagnosticsSorted ==
    /\ \A i, j \in 1..Len(visited) : i < j => StringLess(visited[i].key, visited[j].key)
    /\ \A i, j \in 1..Len(stderr) :
          i < j => stderr[i].key = stderr[j].key \/ StringLess(stderr[i].key, stderr[j].key)
    /\ \A i \in 1..Len(stderr) :
          /\ stderr[i].kind = "header" =>
                /\ i = 1 \/ stderr[i - 1].key # stderr[i].key
                /\ LET surviving == Surviving(stderr[i].key)
                   IN  Cardinality({j \in 1..Len(stderr) :
                                       /\ stderr[j].kind = "section"
                                       /\ stderr[j].key = stderr[i].key
                                       /\ stderr[j].section \in Range(surviving)})
                          = Len(surviving)
          /\ stderr[i].kind = "section" =>
                /\ i > 1
                /\ stderr[i - 1].key = stderr[i].key
                /\ \/ stderr[i - 1].kind = "header"
                   \/ /\ stderr[i - 1].kind = "section"
                      /\ stderr[i - 1].section.sortValue <= stderr[i].section.sortValue

\* the profile lists the region of lines 2-3 of a.go before the region of
\* line 1; they are printed after the header with line 1 first
C8_Witness ==
    /\ pc = "done"
    /\ written.content = ProfileText(<<<<"a",".","g","o",":","2",".","3",",","3",".","4"," ","2"," ","0">>, <<"a",".","g","o",":","1",".","1",",","1",".","5"," ","1"," ","0">>>>)
    /\ Len(stderr) = 3
    /\ stderr[1].kind = "header"
    /\ stderr[2].kind = "section" /\ stderr[2].section.startLine = 1
    /\ stderr[3].kind = "section" /\ stderr[3].section.startLine = 2

\* C9: the stale profile is gone before the go test command starts, and when
\* the run has returned the profile is absent unless -cover was passed, in
\* which case what the go test command left is in place.
C9_ProfileRemoved ==
    /\ pc = "run" => coverageFile = NoFile
    /\ pc # "start" => coverageFile # File(StaleProfile)
    /\ pc = "done" =>
          IF containsString(argv, "-cover") THEN coverageFile = written
          ELSE coverageFile = NoFile

\* a run with -cover that analysed the profile and left it in place
C9_Witness ==
    /\ pc = "done"
    /\ containsString(argv, "-cover")
    /\ goExit = 0
    /\ coverageFile.exists
    /\ coverageFile = written

=====
